---- MODULE Spec2Model ----
(***************************************************************************)
(* A model of swamp_git.py: the activity-repository automation script.     *)
(*                                                                         *)
(* The script is a sequential program.  Its state is the local clone, the  *)
(* remotes it pushes to, the activity files of the working tree, the wall  *)
(* clock it reads, and the position of the running subcommand.             *)
(*                                                                         *)
(* A timestamp is a record [day, sod, micro]: the local calendar day as a  *)
(* day number (day 0 is 2025-01-01), the second of that day and the        *)
(* microsecond of that second.                                             *)
(***************************************************************************)
EXTENDS Integers, Sequences, FiniteSets, TLC

VARIABLES
    now,        \* the wall clock, in the configured timezone
    cb_scheme,  \* compute_backdated_when: the scheme of the calls of this run
    cb_index,   \* compute_backdated_when: the index of the next call
    cb_log,     \* compute_backdated_when: the calls made, [index, base, when]
    cb_slept,   \* whether time has passed since the last call
    wt,         \* the working tree: activity file path -> content (characters)
    wt_prev,    \* the working tree before the last update_activity_file call
    wt_path,    \* the path the last update_activity_file call returned
    wt_calls,   \* the number of update_activity_file calls made
    args,       \* the parsed command line: [cmd, count, backdate, dates]
    settings,   \* the Settings record of this process
    gitconfig,  \* user.name / user.email: [global, repo], "" when unset
    path,       \* settings.repo_path: "absent", "plain", "corrupt" or "repo"
    heads,      \* the local branches: name -> history (<<>>: no such branch)
    HEAD,       \* the branch HEAD names
    git_index,  \* the staging area, a tree
    remotes,    \* the remotes configured in the clone: name -> url
    tracking,   \* the remote-tracking ref origin/<branch>, a history
    upstream,   \* whether <branch> has an upstream configured
    origin,     \* the primary remote repository: name -> history
    secondary,  \* <branch> on the secondary remote repository, a history
    pc,         \* the position of the process
    loop_i,     \* the loop index of the running subcommand
    noon_base,  \* op_gpt_push: today at noon, read once after the sync
    cur_when,   \* the timestamp of the current iteration
    text_commit,\* the activity text of the current iteration
    author_actor, \* commit_and_push: the identity the resolver returned
    effects,    \* commit_and_push: the side effects of the current call, in order
    fault,      \* the fault that ended the process, "" while there is none
    made,       \* the commits this process created, in order
    pushed,     \* the value of made at each successful push to origin
    runs,       \* the processes started so far
    synced,     \* the tip of <branch> after each completed sync, newest last
    touched     \* whether the repository was written to since the last sync

clockVars == <<now, cb_scheme, cb_index, cb_log, cb_slept>>

fileVars == <<wt, wt_prev, wt_path, wt_calls>>

envVars == <<args, settings>>

repoVars == <<path, heads, HEAD, git_index, remotes, tracking, upstream, gitconfig>>

remoteVars == <<origin, secondary>>

procVars == <<pc, loop_i, noon_base, cur_when, text_commit, author_actor, effects, fault, made, pushed, runs, synced, touched>>

programVars == <<envVars, repoVars, remoteVars, procVars>>

vars == <<clockVars, fileVars, programVars>>

----------------------------------------------------------------------------
(* Clock arithmetic: datetime and dateutil.relativedelta.                   *)

SecondsPerHour == 3600
SecondsPerDay == 86400
DaysPerWeek == 7
NoonHour == 12
\* The largest index a run uses (gpt-push --count is MaxIndex + 1).
MaxIndex == 2

\* The calendar day of the first clock reading of a run.
StartDay == 274

Schemes == {"none", "hourly", "daily", "weekly"}

\* Floor division and the matching remainder, for a possibly negative x.
FloorDiv(x, n) == IF x >= 0 THEN x \div n ELSE -((-x + n - 1) \div n)

FloorMod(x, n) == x - n * FloorDiv(x, n)

Hour(t) == t.sod \div SecondsPerHour

Minute(t) == (t.sod % SecondsPerHour) \div 60

Second(t) == t.sod % 60

\* t - relativedelta(hours = h, days = d, weeks = w)
MinusDelta(t, h, d, w) ==
    LET s == t.sod - h * SecondsPerHour
    IN  [day   |-> t.day - d - DaysPerWeek * w + FloorDiv(s, SecondsPerDay),
         sod   |-> FloorMod(s, SecondsPerDay),
         micro |-> t.micro]

\* t + secs seconds of elapsed time
PlusSeconds(t, secs) ==
    LET s == t.sod + secs
    IN  [day   |-> t.day + FloorDiv(s, SecondsPerDay),
         sod   |-> FloorMod(s, SecondsPerDay),
         micro |-> t.micro]

\* t.replace(hour=12, minute=0, second=0, microsecond=0)
ReplaceNoon(t) == [day |-> t.day, sod |-> NoonHour * SecondsPerHour, micro |-> 0]

\* A variant that leaves the no-scheme result as the clock reading.
compute_backdated_when_raw(base, scheme, index) ==
    IF scheme = "none"
    THEN base
    ELSE ReplaceNoon(MinusDelta(base,
                                IF scheme = "hourly" THEN index ELSE 0,
                                IF scheme = "daily" THEN index ELSE 0,
                                IF scheme = "weekly" THEN index ELSE 0))

\* compute_backdated_when(timezone, scheme, index), base being the clock
\* reading dt.datetime.now(tz) the call makes.
compute_backdated_when(base, scheme, index) ==
    LET delta == CASE scheme = "hourly" -> [h |-> index, d |-> 0, w |-> 0]
                   [] scheme = "daily"  -> [h |-> 0, d |-> index, w |-> 0]
                   [] scheme = "weekly" -> [h |-> 0, d |-> 0, w |-> index]
                   [] OTHER             -> [h |-> 0, d |-> 0, w |-> 0]
        when == MinusDelta(base, delta.h, delta.d, delta.w)
    IN  ReplaceNoon(when)

----------------------------------------------------------------------------
(* The calendar: a day number and its year, month and day of the month.     *)
(* Day 0 is the first of January 2025.                                      *)

IsLeap(y) == (y % 4 = 0 /\ y % 100 # 0) \/ y % 400 = 0

DaysInMonth(y, m) ==
    CASE m = 2 -> IF IsLeap(y) THEN 29 ELSE 28
      [] m \in {4, 6, 9, 11} -> 30
      [] OTHER -> 31

DaysInYear(y) == IF IsLeap(y) THEN 366 ELSE 365

RECURSIVE DateFrom(_, _, _)
\* The date n days after the first day of month m of year y (n may be < 0).
DateFrom(y, m, n) ==
    IF n < 0
    THEN IF m = 1
         THEN DateFrom(y - 1, 12, n + DaysInMonth(y - 1, 12))
         ELSE DateFrom(y, m - 1, n + DaysInMonth(y, m - 1))
    ELSE IF n >= DaysInMonth(y, m)
         THEN IF m = 12
              THEN DateFrom(y + 1, 1, n - DaysInMonth(y, m))
              ELSE DateFrom(y, m + 1, n - DaysInMonth(y, m))
         ELSE [y |-> y, m |-> m, d |-> n + 1]

\* The calendar date of a day number.
DateOf(day) == DateFrom(2025, 1, day)

RECURSIVE DaysBefore(_, _)
\* The days of year y before its month m.
DaysBefore(y, m) == IF m = 1 THEN 0 ELSE DaysBefore(y, m - 1) + DaysInMonth(y, m - 1)

RECURSIVE YearStart(_)
\* The day number of the first of January of year y.
YearStart(y) ==
    IF y = 2025 THEN 0
    ELSE IF y > 2025 THEN YearStart(y - 1) + DaysInYear(y - 1)
    ELSE YearStart(y + 1) - DaysInYear(y)

\* The day number of a calendar date.
DayNumber(y, m, d) == YearStart(y) + DaysBefore(y, m) + d - 1

----------------------------------------------------------------------------
(* strftime: text is a sequence of characters.                              *)

DigitChars == <<"0", "1", "2", "3", "4", "5", "6", "7", "8", "9">>

Digit(k) == DigitChars[k + 1]

\* A number as two zero-padded digits (%d, %m, %y, %H, %M).
TwoDigits(n) == <<Digit((n \div 10) % 10), Digit(n % 10)>>

\* A year as four digits (%Y).
FourDigits(n) == TwoDigits(n \div 100) \o TwoDigits(n % 100)

\* now.strftime("%Y") / now.strftime("%m") / now.strftime("%d") + ".md"
PathOf(t) ==
    LET c == DateOf(t.day)
    IN  <<FourDigits(c.y), TwoDigits(c.m), TwoDigits(c.d)>>

\* now.strftime("%d.%m.%y")
HeadingDate(t) ==
    LET c == DateOf(t.day)
    IN  TwoDigits(c.d) \o <<".">> \o TwoDigits(c.m) \o <<".">> \o TwoDigits(c.y % 100)

\* now.strftime("%H:%M")
ClockLabel(t) == TwoDigits(Hour(t)) \o <<":">> \o TwoDigits(Minute(t))

NL == "\n"

\* The Cyrillic letter zhe, a character that UTF-8 encodes in two bytes.
Zhe == "U+0436"

\* The bytes of a character written with encoding="utf-8".
Utf8Len(c) == IF c = Zhe THEN 2 ELSE 1

RECURSIVE Size(_)
\* st_size: the bytes of a file of the given content.
Size(text) == IF text = <<>> THEN 0 ELSE Utf8Len(Head(text)) + Size(Tail(text))

\* f"# {date}\n\n{activity}\n"
HeaderBlock(t, activity) ==
    <<"#", " ">> \o HeadingDate(t) \o <<NL, NL>> \o activity \o <<NL>>

\* f"\n<hr>\n\n_UPD ({time}):_\n\n{activity}\n"
UpdBlock(t, activity) ==
    <<NL, "<", "h", "r", ">", NL, NL, "_", "U", "P", "D", " ", "(">>
        \o ClockLabel(t) \o <<")", ":", "_", NL, NL>> \o activity \o <<NL>>

\* The files of a tree, as the set of their paths.
Files(tree) == DOMAIN tree

\* The tree with the file at path p holding content c.
WithFile(tree, p, c) == [q \in Files(tree) \cup {p} |-> IF q = p THEN c ELSE tree[q]]

\* A variant whose second write replaces the file.
update_activity_file_overwrite(tree, activity, when) ==
    WithFile(tree, PathOf(when), HeaderBlock(when, activity))

\* update_activity_file(repo_path, timezone, activity, when): the working tree
\* after the call.  The file is absent, or present with its content.
update_activity_file(tree, activity, when) ==
    LET file_path == PathOf(when)
    IN  IF file_path \notin Files(tree) \/ Len(tree[file_path]) = 0
        THEN WithFile(tree, file_path, HeaderBlock(when, activity))
        ELSE WithFile(tree, file_path, tree[file_path] \o UpdBlock(when, activity))

----------------------------------------------------------------------------
(* The version-control tool: trees, commits, histories, and what the git     *)
(* commands the script runs do to them.                                     *)

\* DEFAULTS["BRANCH"], and the branch a fresh "git init" starts on.
Branch == "main"

InitialBranch == "master"

Branches == {Branch, InitialBranch}

\* DEFAULTS["SECONDARY_REMOTE_NAME"]
SecondaryName == "gitlab"

EmptyTree == <<>>

NoHistory == <<>>

\* What a tree holds at a path: a file's content, or nothing.
Content(tree, p) == IF p \in Files(tree) THEN <<"file", tree[p]>> ELSE <<"absent">>

Paths(a, b, c) == Files(a) \cup Files(b) \cup Files(c)

\* The tree of the last commit of a history; the empty tree of an unborn branch.
TreeOf(hist) == IF hist = NoHistory THEN EmptyTree ELSE hist[Len(hist)].tree

IsPrefix(a, b) == Len(a) <= Len(b) /\ SubSeq(b, 1, Len(a)) = a

\* A variant that reports every tree dirty: the commit made unconditionally.
is_dirty_always(work, idx, headTree) == TRUE

\* repo.is_dirty(index=True, working_tree=True, untracked_files=True)
is_dirty(work, idx, headTree) ==
    \E p \in Paths(work, idx, headTree) :
        \/ Content(idx, p) # Content(headTree, p)
        \/ Content(work, p) # Content(idx, p)

\* The paths with a local change: staged, modified or untracked.
LocalChanges(work, idx, headTree) ==
    { p \in Paths(work, idx, headTree) :
        \/ Content(idx, p) # Content(headTree, p)
        \/ Content(work, p) # Content(idx, p) }

\* git checkout refuses to switch when a locally changed path differs
\* between the current commit and the target.
CheckoutAllowed(work, idx, headTree, target) ==
    \A p \in LocalChanges(work, idx, headTree) :
        Content(target, p) = Content(headTree, p)

\* The tree `from` after a checkout of `target` that carries the local changes.
Carry(from, changed, target) ==
    LET keep == { p \in changed : p \in Files(from) }
        take == { p \in Files(target) : p \notin changed }
    IN  [p \in keep \cup take |-> IF p \in keep THEN from[p] ELSE target[p]]

\* The working tree after git reset --hard: the target's files, and the
\* untracked files left where they are.
ResetHard(work, idx, target) ==
    LET untracked == { p \in Files(work) : p \notin Files(idx) /\ p \notin Files(target) }
    IN  [p \in Files(target) \cup untracked |->
            IF p \in Files(target) THEN target[p] ELSE work[p]]

\* The branch a clone checks out: the remote's default branch.
DefaultBranch(repo) ==
    IF repo[Branch] # NoHistory THEN Branch ELSE InitialBranch

NoHeads == [b \in Branches |-> NoHistory]

NoRemotes == <<>>

\* repo.remotes with remote `name` pointing at `url`.
WithRemote(rs, name, url) ==
    [n \in DOMAIN rs \cup {name} |-> IF n = name THEN url ELSE rs[n]]

\* An Actor.
Actor(name, email) == [name |-> name, email |-> email]

NoActor == Actor("", "")

\* cr.get_value("user", key): the repository's value, else the global one;
\* "" stands for the exception of a missing value.
ConfigValue(cfg, key) == IF cfg.repo[key] # "" THEN cfg.repo[key] ELSE cfg.global[key]

\* _ensure_repo_identity(repo, settings): the (name, email) the resolver ends
\* with; it raises SystemExit when either is empty.
ensure_repo_identity(s, cfg) ==
    LET name0 == s.author_name
        email0 == s.author_email
        lookup == name0 = "" \/ email0 = ""
        nameRaised == lookup /\ name0 = "" /\ ConfigValue(cfg, "name") = ""
        name1 == IF lookup /\ name0 = "" THEN ConfigValue(cfg, "name") ELSE name0
        email1 == IF lookup /\ ~nameRaised /\ email0 = ""
                  THEN ConfigValue(cfg, "email") ELSE email0
    IN  Actor(name1, email1)

\* A variant that checks the name alone.
IdentityComplete_name_only(a) == a.name # ""

\* if not name or not email: raise SystemExit
IdentityComplete(a) == a.name # "" /\ a.email # ""

\* repo.index.commit(message, author=, committer=, author_date=, commit_date=)
NewCommit(author, committer, adate, cdate, tree, message) ==
    [author |-> author, committer |-> committer, adate |-> adate, cdate |-> cdate,
     tree |-> tree, message |-> message]

\* A push that is not forced is accepted when it fast-forwards the remote branch.
PushAccepted(remoteHist, localHist) ==
    localHist # NoHistory /\ IsPrefix(remoteHist, localHist)
----------------------------------------------------------------------------
(* Parsing and formatting of dates: str.split / str.strip, strptime with      *)
(* "%Y-%m-%d", strftime with "%Y-%m-%d %H:%M:%S", and git's reading of it.  *)

IsDigit(c) == \E k \in 1..10 : DigitChars[k] = c

DigitValue(c) == (CHOOSE k \in 1..10 : DigitChars[k] = c) - 1

RECURSIVE Number(_)
\* The number a sequence of digits writes.
Number(ds) ==
    IF ds = <<>> THEN 0
    ELSE 10 * Number(SubSeq(ds, 1, Len(ds) - 1)) + DigitValue(ds[Len(ds)])

AllDigits(ds) == ds # <<>> /\ \A k \in 1..Len(ds) : IsDigit(ds[k])

RECURSIVE Split(_, _)
\* text.split(sep): the fields between the separators, empty ones included.
Split(text, sep) ==
    IF \A k \in 1..Len(text) : text[k] # sep
    THEN <<text>>
    ELSE LET at == CHOOSE k \in 1..Len(text) :
                       text[k] = sep /\ \A j \in 1..(k - 1) : text[j] # sep
         IN  <<SubSeq(text, 1, at - 1)>> \o Split(SubSeq(text, at + 1, Len(text)), sep)

RECURSIVE Strip(_)
\* text.strip(): without leading and trailing blanks.
Strip(text) ==
    IF text = <<>> THEN text
    ELSE IF Head(text) = " " THEN Strip(Tail(text))
    ELSE IF text[Len(text)] = " " THEN Strip(SubSeq(text, 1, Len(text) - 1))
    ELSE text

RECURSIVE StripAll(_)
\* [d.strip() for d in fields if d.strip()]
StripAll(fields) ==
    IF fields = <<>> THEN <<>>
    ELSE LET d == Strip(Head(fields))
         IN  (IF d = <<>> THEN <<>> ELSE <<d>>) \o StripAll(Tail(fields))

\* main: dates = [d.strip() for d in args.dates.split(",") if d.strip()]
SplitDates(raw) == StripAll(Split(raw, ","))

\* Whether strptime(d, "%Y-%m-%d") accepts d: a year of four digits, a month
\* and a day of one or two digits, and a day the month has.
ValidDate(d) ==
    LET f == Split(d, "-")
    IN  /\ Len(f) = 3
        /\ AllDigits(f[1]) /\ Len(f[1]) = 4
        /\ AllDigits(f[2]) /\ Len(f[2]) <= 2
        /\ AllDigits(f[3]) /\ Len(f[3]) <= 2
        /\ Number(f[2]) \in 1..12
        /\ Number(f[3]) \in 1..DaysInMonth(Number(f[1]), Number(f[2]))

\* A variant that takes the day before.
ParseNoon_off_by_one(d) ==
    LET f == Split(d, "-")
    IN  [day   |-> DayNumber(Number(f[1]), Number(f[2]), Number(f[3])) - 1,
         sod   |-> NoonHour * SecondsPerHour,
         micro |-> 0]

\* tz.localize(strptime(d, "%Y-%m-%d").replace(hour=12, minute=0, second=0,
\* microsecond=0)), for a date strptime accepts.
ParseNoon(d) ==
    LET f == Split(d, "-")
    IN  [day   |-> DayNumber(Number(f[1]), Number(f[2]), Number(f[3])),
         sod   |-> NoonHour * SecondsPerHour,
         micro |-> 0]

\* when.date().isoformat()
IsoDate(t) ==
    LET c == DateOf(t.day)
    IN  FourDigits(c.y) \o <<"-">> \o TwoDigits(c.m) \o <<"-">> \o TwoDigits(c.d)

\* when.strftime("%Y-%m-%d %H:%M:%S %z"), the offset left out.
IsoStamp(t) ==
    IsoDate(t) \o <<" ">> \o TwoDigits(Hour(t)) \o <<":">> \o TwoDigits(Minute(t))
        \o <<":">> \o TwoDigits(Second(t))

\* The timestamp git records for an author or commit date given as IsoStamp.
GitDate(stamp) ==
    LET f == Split(stamp, " ")
        d == Split(f[1], "-")
        c == Split(f[2], ":")
    IN  [day   |-> DayNumber(Number(d[1]), Number(d[2]), Number(d[3])),
         sod   |-> Number(c[1]) * SecondsPerHour + Number(c[2]) * 60 + Number(c[3]),
         micro |-> 0]

RECURSIVE Join(_, _)
\* sep.join(fields)
Join(fields, sep) ==
    IF fields = <<>> THEN <<>>
    ELSE IF Len(fields) = 1 THEN fields[1]
    ELSE fields[1] \o <<sep>> \o Join(Tail(fields), sep)
----------------------------------------------------------------------------
(* The process: main, the three subcommands and commit_and_push, one action  *)
(* per step of the code.                                                    *)

\* The seconds one iteration of a subcommand takes (its blocking calls and sleep).
IterationSecs == 60

\* The processes run one after the other on the same machine.
MaxRuns == 2

\* The text of "push <text>", and the text the chat-completion call returns.
PushText == <<"t">>

AiText == <<"m">>

SwampName == "swamp_git"

SwampEmail == "swamp_git@example.local"

\* The list fill_missing_days receives.
DateList == SplitDates(args.dates)

\* The iterations of the running subcommand.
Iterations ==
    CASE args.cmd = "push" -> 1
      [] args.cmd = "gpt-push" -> args.count
      [] OTHER -> Len(DateList)

HeadTree == TreeOf(heads[HEAD])

\* raise: the process ends with the fault.
Raise(reason) == pc' = "failed" /\ fault' = reason

\* ensure_remote_url(repo, expected_url, name): the remote is created, or its
\* URL is set when it differs.
ensure_remote_url(rs, expected_url, name) ==
    IF name \notin DOMAIN rs THEN WithRemote(rs, name, expected_url)
    ELSE IF rs[name] # expected_url THEN WithRemote(rs, name, expected_url)
    ELSE rs

\* main, lines 464-471: Repo.init(settings.repo_path) creates the path and an
\* empty repository in it when there is none; when it or the lookup of
\* user.name raises, the global identity is set to swamp_git.
MainInit ==
    /\ pc = "main"
    /\ LET created == path \in {"absent", "plain"}
           raised == path = "corrupt"
           noName == \/ raised
                     \/ IF created THEN gitconfig.global.name = ""
                        ELSE ConfigValue(gitconfig, "name") = ""
           global == IF noName THEN Actor(SwampName, SwampEmail) ELSE gitconfig.global
       IN  /\ path' = IF created THEN "repo" ELSE path
           /\ heads' = IF created THEN NoHeads ELSE heads
           /\ HEAD' = IF created THEN InitialBranch ELSE HEAD
           /\ git_index' = IF created THEN EmptyTree ELSE git_index
           /\ remotes' = IF created THEN NoRemotes ELSE remotes
           /\ tracking' = IF created THEN NoHistory ELSE tracking
           /\ upstream' = IF created THEN FALSE ELSE upstream
           /\ gitconfig' = [global |-> global,
                            repo |-> IF created THEN NoActor ELSE gitconfig.repo]
    /\ pc' = "ensure"
    /\ UNCHANGED <<clockVars, fileVars, envVars, remoteVars>>
    /\ UNCHANGED <<loop_i, noon_base, cur_when, text_commit, author_actor, effects,
                   fault, made, pushed, runs, synced, touched>>

\* Repo.clone_from(git_url, repo_path)
Clone ==
    LET def == DefaultBranch(origin)
    IN  /\ path' = "repo"
        /\ heads' = [b \in Branches |-> IF b = def THEN origin[b] ELSE NoHistory]
        /\ HEAD' = def
        /\ git_index' = TreeOf(origin[def])
        /\ wt' = TreeOf(origin[def])
        /\ remotes' = WithRemote(NoRemotes, "origin", settings.repo_url)
        /\ tracking' = origin[Branch]
        /\ upstream' = (def = Branch /\ origin[Branch] # NoHistory)
        /\ gitconfig' = [gitconfig EXCEPT !.repo = NoActor]

\* ensure_repo(repo_path, git_url): clone when the path does not exist; open
\* the repository; delete and clone again when it is not a valid repository.
EnsureRepo ==
    /\ pc = "ensure"
    /\ IF path = "repo"
       THEN UNCHANGED <<repoVars, wt>>
       ELSE Clone
    /\ pc' = "sync"
    /\ UNCHANGED <<clockVars, wt_prev, wt_path, wt_calls, envVars, remoteVars>>
    /\ UNCHANGED <<loop_i, noon_base, cur_when, text_commit, author_actor, effects,
                   fault, made, pushed, runs, synced, touched>>
----------------------------------------------------------------------------
(* sync_with_origin, the loop heads of the subcommands, the chat-completion  *)
(* call and the activity file write.                                        *)

\* The clone as a record, for the operators that compute its next value.
Clone0 ==
    [heads |-> heads, HEAD |-> HEAD, wt |-> wt, git_index |-> git_index,
     remotes |-> remotes, tracking |-> tracking, upstream |-> upstream]

\* git checkout of the commit with tree `target`: refused, or done with the
\* local changes carried over.
CheckedOut(r, target) ==
    LET headTree == TreeOf(r.heads[r.HEAD])
        changed == LocalChanges(r.wt, r.git_index, headTree)
    IN  [ok |-> CheckoutAllowed(r.wt, r.git_index, headTree, target),
         wt |-> Carry(r.wt, changed, target),
         git_index |-> Carry(r.git_index, changed, target)]

\* A variant that resets to origin/<branch> as it was before the fetch.
sync_with_origin_stale(r, primary) ==
    LET fetched == IF "origin" \in DOMAIN r.remotes THEN primary[Branch] ELSE r.tracking
        co == CheckedOut(r, TreeOf(r.tracking))
    IN  IF "origin" \in DOMAIN r.remotes /\ primary[Branch] # NoHistory
        THEN [r EXCEPT !.heads = [r.heads EXCEPT ![Branch] = r.tracking],
                       !.HEAD = Branch,
                       !.upstream = TRUE,
                       !.tracking = fetched,
                       !.wt = ResetHard(co.wt, co.git_index, TreeOf(r.tracking)),
                       !.git_index = TreeOf(r.tracking)] @@ [ok |-> co.ok]
        ELSE [r EXCEPT !.heads = [r.heads EXCEPT ![Branch] = r.heads[r.HEAD]],
                       !.HEAD = Branch,
                       !.tracking = fetched] @@ [ok |-> TRUE]

\* sync_with_origin(repo, branch) on the clone r, `primary` being the
\* repository behind the remote origin: the clone after the call, and whether
\* every git command of the call succeeded.
sync_with_origin(r, primary) ==
    LET hasOrigin == "origin" \in DOMAIN r.remotes
        \* git fetch --all --prune
        fetched == IF hasOrigin THEN primary[Branch] ELSE r.tracking
        \* git ls-remote --heads origin <branch>; an error counts as no branch
        remote_branch_exists == hasOrigin /\ primary[Branch] # NoHistory
        toRemote == CheckedOut(r, TreeOf(fetched))
        toLocal == CheckedOut(r, TreeOf(r.heads[Branch]))
    IN  IF remote_branch_exists
        THEN \* git checkout -B <branch> origin/<branch>; git reset --hard
             IF toRemote.ok
             THEN [r EXCEPT !.heads = [r.heads EXCEPT ![Branch] = fetched],
                            !.HEAD = Branch,
                            !.upstream = TRUE,
                            !.tracking = fetched,
                            !.wt = ResetHard(toRemote.wt, toRemote.git_index,
                                             TreeOf(fetched)),
                            !.git_index = TreeOf(fetched)] @@ [ok |-> TRUE]
             ELSE [r EXCEPT !.tracking = fetched] @@ [ok |-> FALSE]
        ELSE IF r.heads[Branch] # NoHistory
        THEN \* git checkout <branch>
             IF toLocal.ok
             THEN [r EXCEPT !.HEAD = Branch,
                            !.tracking = fetched,
                            !.wt = toLocal.wt,
                            !.git_index = toLocal.git_index] @@ [ok |-> TRUE]
             ELSE [r EXCEPT !.tracking = fetched] @@ [ok |-> FALSE]
        ELSE \* git checkout -B <branch>
             [r EXCEPT !.heads = [r.heads EXCEPT ![Branch] = r.heads[r.HEAD]],
                       !.HEAD = Branch,
                       !.tracking = fetched] @@ [ok |-> TRUE]

\* op_push / op_gpt_push / fill_missing_days: sync_with_origin(repo,
\* settings.branch), then op_gpt_push reads today at noon.
SyncWithOrigin ==
    /\ pc = "sync"
    /\ LET r == sync_with_origin(Clone0, origin)
       IN  /\ heads' = r.heads
           /\ HEAD' = r.HEAD
           /\ wt' = r.wt
           /\ git_index' = r.git_index
           /\ tracking' = r.tracking
           /\ upstream' = r.upstream
           /\ IF r.ok
              THEN /\ pc' = "loop"
                   /\ fault' = fault
                   /\ synced' = Append(synced, [tip |-> r.heads[Branch],
                                                quiet |-> ~touched])
                   /\ touched' = FALSE
              ELSE /\ Raise("checkout")
                   /\ UNCHANGED <<synced, touched>>
    /\ loop_i' = 0
    /\ noon_base' = IF args.cmd = "gpt-push" THEN ReplaceNoon(now) ELSE noon_base
    /\ UNCHANGED <<clockVars, wt_prev, wt_path, wt_calls, envVars, remoteVars>>
    /\ UNCHANGED <<path, remotes, gitconfig>>
    /\ UNCHANGED <<cur_when, text_commit, author_actor, effects, made, pushed, runs>>

\* The head of the loop of the running subcommand: the loop ends, or the
\* iteration's timestamp is computed.
\*   op_push:           the file and the commit take the current time
\*   op_gpt_push:       when = base if not backdate else compute_backdated_when(...)
\*   fill_missing_days: when = noon of the date, or ValueError
LoopHead ==
    /\ pc = "loop"
    /\ IF loop_i >= Iterations
       THEN /\ pc' = "done"
            /\ UNCHANGED <<cur_when, text_commit, fault>>
       ELSE CASE args.cmd = "push" ->
                   /\ cur_when' = now
                   /\ text_commit' = PushText
                   /\ pc' = "write"
                   /\ fault' = fault
              [] args.cmd = "gpt-push" ->
                   /\ cur_when' = IF args.backdate = "none" THEN noon_base
                                  ELSE compute_backdated_when(now, args.backdate, loop_i)
                   /\ pc' = "ai"
                   /\ UNCHANGED <<text_commit, fault>>
              [] OTHER ->
                   IF ValidDate(DateList[loop_i + 1])
                   THEN /\ cur_when' = ParseNoon(DateList[loop_i + 1])
                        /\ pc' = "ai"
                        /\ UNCHANGED <<text_commit, fault>>
                   ELSE /\ Raise("date")
                        /\ UNCHANGED <<cur_when, text_commit>>
    /\ UNCHANGED <<clockVars, fileVars, envVars, repoVars, remoteVars>>
    /\ UNCHANGED <<loop_i, noon_base, author_actor, effects, made, pushed, runs,
                   synced, touched>>

\* A variant that goes on with the text at hand when the call fails.
AiFailure_stale_text == pc' = "write" /\ fault' = fault

\* The exception of build_ai_client or of the chat-completion call, which no
\* caller catches.
AiFailure == Raise("ai")

\* generate_ai_commit_text(settings, context): the text, or the error of the
\* client or of the call.
GenerateAi ==
    /\ pc = "ai"
    /\ \E answered \in BOOLEAN :
          IF answered
          THEN /\ text_commit' = AiText
               /\ pc' = "write"
               /\ fault' = fault
          ELSE /\ AiFailure
               /\ text_commit' = text_commit
    /\ UNCHANGED <<clockVars, fileVars, envVars, repoVars, remoteVars>>
    /\ UNCHANGED <<loop_i, noon_base, cur_when, author_actor, effects, made, pushed,
                   runs, synced, touched>>

\* update_activity_file(settings.repo_path, settings.timezone, text, when)
WriteActivity ==
    /\ pc = "write"
    /\ wt' = update_activity_file(wt, text_commit, cur_when)
    /\ wt_prev' = wt
    /\ wt_path' = PathOf(cur_when)
    /\ wt_calls' = wt_calls + 1
    /\ pc' = "cp_remote"
    /\ effects' = <<>>
    /\ touched' = TRUE
    /\ UNCHANGED <<clockVars, envVars, repoVars, remoteVars>>
    /\ UNCHANGED <<loop_i, noon_base, cur_when, text_commit, author_actor, fault,
                   made, pushed, runs, synced>>
----------------------------------------------------------------------------
(* commit_and_push(repo, settings, branch, message, secondary_remote_name,   *)
(* force_push_secondary, author_date, committer_date), statement by         *)
(* statement.  effects records the steps of the current call as they run.   *)

\* The secondary_remote_name argument the subcommands pass: the name when
\* settings.secondary_remote_url is set, else None ("").
SecondaryArg == IF settings.secondary_remote_url # "" THEN settings.secondary_remote_name ELSE ""

\* ensure_remote_url for origin, and for the secondary remote when its URL is set.
CpRemote ==
    /\ pc = "cp_remote"
    /\ remotes' =
          LET withOrigin == ensure_remote_url(remotes, settings.repo_url, "origin")
          IN  IF settings.secondary_remote_url # ""
              THEN ensure_remote_url(withOrigin, settings.secondary_remote_url,
                                     settings.secondary_remote_name)
              ELSE withOrigin
    /\ effects' = Append(effects, "remote")
    /\ pc' = "cp_checkout"
    /\ UNCHANGED <<clockVars, fileVars, envVars, remoteVars>>
    /\ UNCHANGED <<path, heads, HEAD, git_index, tracking, upstream, gitconfig>>
    /\ UNCHANGED <<loop_i, noon_base, cur_when, text_commit, author_actor, fault,
                   made, pushed, runs, synced, touched>>

\* repo.git.checkout("-B", branch): the branch is created at, or reset to, HEAD.
CpCheckout ==
    /\ pc = "cp_checkout"
    /\ heads' = [heads EXCEPT ![Branch] = heads[HEAD]]
    /\ HEAD' = Branch
    /\ effects' = Append(effects, "checkout")
    /\ pc' = "cp_identity"
    /\ UNCHANGED <<clockVars, fileVars, envVars, remoteVars>>
    /\ UNCHANGED <<path, git_index, remotes, tracking, upstream, gitconfig>>
    /\ UNCHANGED <<loop_i, noon_base, cur_when, text_commit, author_actor, fault,
                   made, pushed, runs, synced, touched>>

\* author_actor = _ensure_repo_identity(repo, settings): SystemExit without a
\* complete identity; else the identity is written to the repository's config.
CpIdentity ==
    /\ pc = "cp_identity"
    /\ effects' = Append(effects, "identity")
    /\ LET a == ensure_repo_identity(settings, gitconfig)
       IN  IF IdentityComplete(a)
           THEN /\ author_actor' = a
                /\ gitconfig' = [gitconfig EXCEPT !.repo = a]
                /\ pc' = "cp_add"
                /\ fault' = fault
           ELSE /\ Raise("identity")
                /\ UNCHANGED <<author_actor, gitconfig>>
    /\ UNCHANGED <<clockVars, fileVars, envVars, remoteVars>>
    /\ UNCHANGED <<path, heads, HEAD, git_index, remotes, tracking, upstream>>
    /\ UNCHANGED <<loop_i, noon_base, cur_when, text_commit, made, pushed, runs,
                   synced, touched>>

\* repo.git.add(A=True)
CpAdd ==
    /\ pc = "cp_add"
    /\ git_index' = wt
    /\ effects' = Append(effects, "add")
    /\ pc' = "cp_commit"
    /\ UNCHANGED <<clockVars, fileVars, envVars, remoteVars>>
    /\ UNCHANGED <<path, heads, HEAD, remotes, tracking, upstream, gitconfig>>
    /\ UNCHANGED <<loop_i, noon_base, cur_when, text_commit, author_actor, fault,
                   made, pushed, runs, synced, touched>>

\* The author and commit date of the commit: the author_date / committer_date
\* strings as git reads them, or the current time when none is passed (op_push).
CommitDate ==
    IF args.cmd = "push" THEN [now EXCEPT !.micro = 0] ELSE GitDate(IsoStamp(cur_when))

\* The commit message: "Update activities for <date>".
CommitMessage == IsoDate(cur_when)

\* repo.index.commit(message, author=author_actor, committer=author_actor, **kwargs)
TheCommit ==
    NewCommit(author_actor, author_actor, CommitDate, CommitDate, git_index,
              CommitMessage)

\* if repo.is_dirty(...): repo.index.commit(...) else: nothing to commit
CpCommit ==
    /\ pc = "cp_commit"
    /\ IF is_dirty(wt, git_index, HeadTree)
       THEN /\ heads' = [heads EXCEPT ![HEAD] = Append(@, TheCommit)]
            /\ made' = Append(made, TheCommit)
            /\ effects' = Append(effects, "commit")
       ELSE UNCHANGED <<heads, made, effects>>
    /\ pc' = "cp_push"
    /\ UNCHANGED <<clockVars, fileVars, envVars, remoteVars>>
    /\ UNCHANGED <<path, HEAD, git_index, remotes, tracking, upstream, gitconfig>>
    /\ UNCHANGED <<loop_i, noon_base, cur_when, text_commit, author_actor, fault,
                   pushed, runs, synced, touched>>

\* A variant that swallows the failure of the push to origin.
PrimaryFailure_swallowed == pc' = "cp_secondary" /\ fault' = fault

\* except GitCommandError: logger.error(...); raise
PrimaryFailure == Raise("push")

\* repo.git.push("--set-upstream", "origin", branch) without an upstream, else
\* repo.git.push("origin", branch); the remote accepts a fast-forward, and the
\* network may fail.
CpPush ==
    /\ pc = "cp_push"
    /\ effects' = Append(effects, "push")
    /\ \E delivered \in BOOLEAN :
          IF delivered /\ PushAccepted(origin[Branch], heads[Branch])
          THEN /\ origin' = [origin EXCEPT ![Branch] = heads[Branch]]
               /\ tracking' = heads[Branch]
               /\ upstream' = TRUE
               /\ pushed' = Append(pushed, made)
               /\ pc' = "cp_secondary"
               /\ fault' = fault
          ELSE /\ PrimaryFailure
               /\ UNCHANGED <<origin, tracking, upstream, pushed>>
    /\ UNCHANGED <<clockVars, fileVars, envVars, secondary>>
    /\ UNCHANGED <<path, heads, HEAD, git_index, remotes, gitconfig>>
    /\ UNCHANGED <<loop_i, noon_base, cur_when, text_commit, author_actor, made,
                   runs, synced, touched>>

\* The push to the secondary remote, when one is passed and configured:
\* forced or plain; its failure is logged.  commit_and_push returns.
CpSecondary ==
    /\ pc = "cp_secondary"
    /\ IF SecondaryArg # "" /\ SecondaryArg \in DOMAIN remotes
       THEN /\ effects' = Append(effects, "secondary")
            /\ \E delivered \in BOOLEAN :
                  IF /\ delivered
                     /\ \/ settings.force_push_secondary
                        \/ PushAccepted(secondary, heads[Branch])
                  THEN secondary' = heads[Branch]
                  ELSE secondary' = secondary
       ELSE UNCHANGED <<effects, secondary>>
    /\ pc' = "returned"
    /\ UNCHANGED <<clockVars, fileVars, envVars, repoVars, origin>>
    /\ UNCHANGED <<loop_i, noon_base, cur_when, text_commit, author_actor, fault,
                   made, pushed, runs, synced, touched>>

\* The end of an iteration: the sleep of op_gpt_push, and the next index.
NextIteration ==
    /\ pc = "returned"
    /\ loop_i' = loop_i + 1
    /\ now' = PlusSeconds(now, IterationSecs)
    /\ pc' = "loop"
    /\ UNCHANGED <<cb_scheme, cb_index, cb_log, cb_slept>>
    /\ UNCHANGED <<fileVars, envVars, repoVars, remoteVars>>
    /\ UNCHANGED <<noon_base, cur_when, text_commit, author_actor, effects, fault,
                   made, pushed, runs, synced, touched>>

\* The process has ended; the script is run again with the same settings.
Restart ==
    /\ pc \in {"done", "failed"}
    /\ runs < MaxRuns
    /\ runs' = runs + 1
    /\ pc' = "main"
    /\ fault' = ""
    /\ loop_i' = 0
    /\ effects' = <<>>
    /\ made' = <<>>
    /\ pushed' = <<>>
    /\ author_actor' = NoActor
    /\ UNCHANGED <<clockVars, fileVars, envVars, repoVars, remoteVars>>
    /\ UNCHANGED <<noon_base, cur_when, text_commit, synced, touched>>

Next ==
    \/ MainInit
    \/ EnsureRepo
    \/ SyncWithOrigin
    \/ LoopHead
    \/ GenerateAi
    \/ WriteActivity
    \/ CpRemote
    \/ CpCheckout
    \/ CpIdentity
    \/ CpAdd
    \/ CpCommit
    \/ CpPush
    \/ CpSecondary
    \/ NextIteration
----------------------------------------------------------------------------
(* The environments a process starts in: the command line, the settings,     *)
(* the local path, the remotes and the clock.                               *)

\* The largest --count of gpt-push, and the most dates of fill-missing.
MaxCount == 2

MaxDates == 2

RepoUrl == "git@github.com:USER/REPO.git"

HttpsUrl == "https://github.com/USER/REPO.git"

SecondaryUrl == "git@gitlab.com:USER/REPO.git"

Noon(day) == [day |-> day, sod |-> NoonHour * SecondsPerHour, micro |-> 0]

\* Commits that exist before the process starts: the root commit, a commit
\* only the remote has (with the activity file of the start day), a commit
\* only the clone has (with the activity file of the day before).
Someone == Actor("someone", "someone@example.org")

RootCommit ==
    NewCommit(Someone, Someone, Noon(StartDay - 10), Noon(StartDay - 10), EmptyTree,
              <<"r", "o", "o", "t">>)

RemoteCommit ==
    NewCommit(Someone, Someone, Noon(StartDay - 5), Noon(StartDay - 5),
              WithFile(EmptyTree, PathOf(Noon(StartDay)),
                       HeaderBlock(Noon(StartDay), <<"r">>)),
              IsoDate(Noon(StartDay)))

LocalCommit ==
    NewCommit(Someone, Someone, Noon(StartDay - 4), Noon(StartDay - 4),
              WithFile(EmptyTree, PathOf(Noon(StartDay - 1)),
                       HeaderBlock(Noon(StartDay - 1), <<"l">>)),
              IsoDate(Noon(StartDay - 1)))

OnBranch(b, hist) == [x \in Branches |-> IF x = b THEN hist ELSE NoHistory]

\* The local path: absent, a plain directory, a directory git cannot read,
\* or a clone (in step with origin, with an unpushed commit, or on the
\* initial branch with a drifted origin URL).
NoClone(state) ==
    [path |-> state, heads |-> NoHeads, HEAD |-> InitialBranch, remotes |-> NoRemotes,
     tracking |-> NoHistory, upstream |-> FALSE]

CloneInStep ==
    [path |-> "repo", heads |-> OnBranch(Branch, <<RootCommit>>), HEAD |-> Branch,
     remotes |-> WithRemote(NoRemotes, "origin", RepoUrl),
     tracking |-> <<RootCommit>>, upstream |-> TRUE]

CloneUnpushed ==
    [CloneInStep EXCEPT !.heads = OnBranch(Branch, <<RootCommit, LocalCommit>>)]

CloneOnMaster ==
    [path |-> "repo", heads |-> OnBranch(InitialBranch, <<RootCommit>>),
     HEAD |-> InitialBranch, remotes |-> WithRemote(NoRemotes, "origin", HttpsUrl),
     tracking |-> NoHistory, upstream |-> FALSE]

AllLocals ==
    {NoClone("absent"), NoClone("plain"), NoClone("corrupt"),
     CloneInStep, CloneUnpushed, CloneOnMaster}

\* The primary remote: empty, with the branch, with the branch ahead of the
\* clone, or with the initial branch only.
OriginEmpty == NoHeads

OriginBase == OnBranch(Branch, <<RootCommit>>)

OriginAhead == OnBranch(Branch, <<RootCommit, RemoteCommit>>)

OriginMasterOnly == OnBranch(InitialBranch, <<RootCommit>>)

AllOrigins == {OriginEmpty, OriginBase, OriginAhead, OriginMasterOnly}

\* GIT_AUTHOR_NAME / GIT_AUTHOR_EMAIL and the global user.name / user.email.
IdentityFromEnv == [author_name |-> "N", author_email |-> "E", global |-> NoActor]

IdentityFromConfig ==
    [author_name |-> "", author_email |-> "", global |-> Actor("cn", "ce")]

IdentityNoEmail ==
    [author_name |-> "", author_email |-> "", global |-> Actor("cn", "")]

IdentityNameOnly == [author_name |-> "N", author_email |-> "", global |-> NoActor]

AllIdentities == {IdentityFromEnv, IdentityFromConfig, IdentityNoEmail, IdentityNameOnly}

\* SECONDARY_REMOTE_URL, FORCE_PUSH_SECONDARY and the branch on that remote.
NoSecondary == [url |-> "", force |-> TRUE, hist |-> NoHistory]

SecondaryForced == [url |-> SecondaryUrl, force |-> TRUE, hist |-> <<RootCommit, RemoteCommit>>]

SecondaryPlain == [url |-> SecondaryUrl, force |-> FALSE, hist |-> <<RootCommit>>]

SecondaryDiverged ==
    [url |-> SecondaryUrl, force |-> FALSE, hist |-> <<RootCommit, RemoteCommit>>]

AllSecondaries == {NoSecondary, SecondaryForced, SecondaryPlain, SecondaryDiverged}

\* The command lines.
DateA == <<"2", "0", "2", "5", "-", "1", "0", "-", "0", "1">>

DateB == <<"2", "0", "2", "5", "-", "1", "0", "-", "0", "2">>

Blank == <<" ">>

DateBad == <<"2", "0", "2", "5", "-", "0", "2", "-", "3", "0">>

\* The sequences of at most n elements of S.
SeqsUpTo(S, n) == UNION { [1..k -> S] : k \in 0..n }

PushArgs == { [cmd |-> "push", count |-> 0, backdate |-> "none", dates |-> <<>>] }

GptPushArgs ==
    { [cmd |-> "gpt-push", count |-> c, backdate |-> b, dates |-> <<>>] :
        c \in 0..MaxCount, b \in Schemes }

FillMissingArgs ==
    { [cmd |-> "fill-missing", count |-> 0, backdate |-> "none", dates |-> Join(l, ",")] :
        l \in SeqsUpTo({DateA, DateB, Blank}, MaxDates)
              \cup { <<DateBad>>, <<DateA, DateBad>> } }

\* The clock at the start of the process: mid-morning, and just before midnight.
StartClocks ==
    { [day |-> StartDay, sod |-> 10 * SecondsPerHour + 1815, micro |-> 250000],
      [day |-> StartDay, sod |-> SecondsPerDay - 30, micro |-> 0] }

\* The Settings record load_settings builds.
SettingsOf(identity, sec) ==
    [repo_url |-> RepoUrl,
     secondary_remote_name |-> SecondaryName,
     secondary_remote_url |-> sec.url,
     force_push_secondary |-> sec.force,
     author_name |-> identity.author_name,
     author_email |-> identity.author_email]

\* The tree a clone has checked out.
Checkout(local) == TreeOf(local.heads[local.HEAD])

\* The clone, the remotes, the settings, the working tree and the staging area
\* of a process about to start.
Environment(local, primary, identity, sec, work, staged) ==
    /\ settings = SettingsOf(identity, sec)
    /\ gitconfig = [global |-> identity.global, repo |-> NoActor]
    /\ path = local.path
    /\ heads = local.heads
    /\ HEAD = local.HEAD
    /\ git_index = staged
    /\ wt = work
    /\ remotes = local.remotes
    /\ tracking = local.tracking
    /\ upstream = local.upstream
    /\ origin = primary
    /\ secondary = sec.hist

\* The process before its first step.
ProcessAt(position) ==
    /\ pc = position
    /\ loop_i = 0
    /\ noon_base = Noon(StartDay)
    /\ cur_when = Noon(StartDay)
    /\ text_commit = <<>>
    /\ author_actor = NoActor
    /\ effects = <<>>
    /\ fault = ""
    /\ made = <<>>
    /\ pushed = <<>>
    /\ runs = 1
    /\ synced = <<>>
    /\ touched = FALSE

NoCalls ==
    /\ cb_scheme = "none"
    /\ cb_index = 0
    /\ cb_log = <<>>
    /\ cb_slept = FALSE
    /\ wt_prev = EmptyTree
    /\ wt_path = <<>>
    /\ wt_calls = 0

\* No process: the state the calculator and the file writer are exercised in.
IdleProgram ==
    /\ args \in PushArgs
    /\ settings = SettingsOf(IdentityFromEnv, NoSecondary)
    /\ gitconfig = [global |-> NoActor, repo |-> NoActor]
    /\ path = "absent"
    /\ heads = NoHeads
    /\ HEAD = InitialBranch
    /\ git_index = EmptyTree
    /\ remotes = NoRemotes
    /\ tracking = NoHistory
    /\ upstream = FALSE
    /\ origin = OriginEmpty
    /\ secondary = NoHistory
    /\ ProcessAt("idle")
----------------------------------------------------------------------------
(* The specifications: one process from its start; processes run one after  *)
(* the other; commit_and_push called on a clone in any state.               *)

\* The identity and the secondary remote vary one at a time.
Configurations ==
    { <<id, NoSecondary>> : id \in AllIdentities }
        \cup { <<IdentityFromEnv, sec>> : sec \in AllSecondaries }

\* The clone and the primary remote of a run of the whole program.
Repositories ==
    { <<CloneInStep, OriginBase>>, <<CloneInStep, OriginAhead>>,
      <<NoClone("absent"), OriginBase>>, <<NoClone("absent"), OriginEmpty>> }

Init ==
    /\ \/ args \in PushArgs /\ now \in StartClocks
       \/ args \in GptPushArgs /\ now \in StartClocks
       \/ args \in FillMissingArgs /\ now = Noon(StartDay)
    /\ \E rp \in Repositories, cf \in Configurations :
          Environment(rp[1], rp[2], cf[1], cf[2], Checkout(rp[1]), Checkout(rp[1]))
    /\ ProcessAt("main")
    /\ NoCalls

Spec == Init /\ [][Next]_vars

\* The argument lists of the runs: each subcommand, and a run of no iteration.
SyncArgs ==
    { a \in PushArgs \cup GptPushArgs \cup FillMissingArgs :
        \/ a.cmd = "push"
        \/ a.cmd = "gpt-push" /\ a.count \in {0, 1} /\ a.backdate = "daily"
        \/ a.cmd = "fill-missing" /\ a.dates = DateA }

InitSync ==
    /\ args \in SyncArgs
    /\ now = Noon(StartDay)
    /\ \E local \in AllLocals, primary \in AllOrigins :
          Environment(local, primary, IdentityFromEnv, NoSecondary,
                      Checkout(local), Checkout(local))
    /\ ProcessAt("main")
    /\ NoCalls

NextSync == Next \/ Restart

SpecSync == InitSync /\ [][NextSync]_vars

\* commit_and_push called on a clone in any state: a clean working tree, a new
\* file, or a changed file; nothing staged, or everything.
FreshRepository == [NoClone("repo") EXCEPT !.HEAD = Branch]

CommitLocals == {CloneInStep, CloneUnpushed, CloneOnMaster, FreshRepository}

\* The working trees over a commit's tree: the tree itself, the tree with a
\* new activity file, the tree with each of its files appended to.
WorkingTrees(tree) ==
    {tree}
        \cup { update_activity_file(tree, AiText, Noon(d)) :
                 d \in {StartDay - 2, StartDay - 1, StartDay} }

InitCommit ==
    /\ args \in PushArgs
               \cup { a \in GptPushArgs : a.count = 1 /\ a.backdate = "none" }
    /\ now \in StartClocks
    /\ \E local \in CommitLocals, primary \in {OriginBase, OriginAhead, OriginEmpty},
          cf \in Configurations :
          \E work \in WorkingTrees(Checkout(local)) :
             \E staged \in {Checkout(local), work} :
                Environment(local, primary, cf[1], cf[2], work, staged)
    /\ ProcessAt("cp_remote")
    /\ NoCalls

NextCommit ==
    \/ CpRemote
    \/ CpCheckout
    \/ CpIdentity
    \/ CpAdd
    \/ CpCommit
    \/ CpPush
    \/ CpSecondary

SpecCommit == InitCommit /\ [][NextCommit]_vars
----------------------------------------------------------------------------
(* The backdating calculator called for the indices 0, 1, ... of one run,   *)
(* the clock advancing between the calls.                                   *)

\* Clock readings a run can start at: times of day around noon and midnight.
StartTimes ==
    { [day |-> StartDay, sod |-> s, micro |-> u] :
        s \in {0, 30, 11 * SecondsPerHour + 1799, NoonHour * SecondsPerHour,
               17 * SecondsPerHour + 45 * 60 + 7, SecondsPerDay - 30},
        u \in {0, 250000} }

\* Seconds that pass between two clock readings (blocking calls, time.sleep).
ElapseSecs == {1, 20, 60}

InitClock ==
    /\ now \in StartTimes
    /\ cb_scheme \in Schemes
    /\ cb_index = 0
    /\ cb_log = <<>>
    /\ cb_slept = FALSE
    /\ wt = EmptyTree
    /\ wt_prev = EmptyTree
    /\ wt_path = <<>>
    /\ wt_calls = 0
    /\ IdleProgram

\* One call of compute_backdated_when, with the next index of the run.
ComputeWhen ==
    /\ cb_index <= MaxIndex
    /\ cb_log' = Append(cb_log,
                        [index |-> cb_index, base |-> now,
                         when |-> compute_backdated_when(now, cb_scheme, cb_index)])
    /\ cb_index' = cb_index + 1
    /\ cb_slept' = FALSE
    /\ UNCHANGED <<now, cb_scheme>>
    /\ UNCHANGED <<fileVars, programVars>>

\* Time passes between two calls (the iteration's body and its sleep).
Elapse ==
    /\ cb_index > 0
    /\ cb_index <= MaxIndex
    /\ ~cb_slept
    /\ \E secs \in ElapseSecs : now' = PlusSeconds(now, secs)
    /\ cb_slept' = TRUE
    /\ UNCHANGED <<cb_scheme, cb_index, cb_log>>
    /\ UNCHANGED <<fileVars, programVars>>

NextClock == ComputeWhen \/ Elapse

SpecClock == InitClock /\ [][NextClock]_vars

----------------------------------------------------------------------------
(* The activity file writer called repeatedly on one working tree.          *)

\* The largest number of update_activity_file calls of a run.
MaxCalls == 3

\* Activity texts: empty, one line, two lines, a non-ASCII letter.
Activities == { <<>>, <<"a">>, <<"a", NL, "b">>, <<Zhe>> }

\* The timestamps of the calls: 2025-09-30 and 2025-10-01, two times of day.
CallTimes ==
    { [day |-> d, sod |-> s, micro |-> 0] :
        d \in {272, 273},
        s \in {9 * SecondsPerHour + 5 * 60, NoonHour * SecondsPerHour} }

\* Working trees a call can start from: empty; an empty file at a path.
StartTrees ==
    { <<>> } \cup { WithFile(<<>>, PathOf(t), <<>>) : t \in CallTimes }

InitActivity ==
    /\ wt \in StartTrees
    /\ wt_prev = <<>>
    /\ wt_path = <<>>
    /\ wt_calls = 0
    /\ now \in CallTimes
    /\ cb_scheme = "none"
    /\ cb_index = 0
    /\ cb_log = <<>>
    /\ cb_slept = FALSE
    /\ IdleProgram

\* One call update_activity_file(repo_path, timezone, activity, when).
UpdateActivityFile ==
    /\ wt_calls < MaxCalls
    /\ \E activity \in Activities, when \in CallTimes :
          /\ wt' = update_activity_file(wt, activity, when)
          /\ wt_path' = PathOf(when)
          /\ now' = when
    /\ wt_prev' = wt
    /\ wt_calls' = wt_calls + 1
    /\ UNCHANGED <<cb_scheme, cb_index, cb_log, cb_slept, programVars>>

NextActivity == UpdateActivityFile

SpecActivity == InitActivity /\ [][NextActivity]_vars

----------------------------------------------------------------------------
(* The properties checked of the model.                                      *)

NoonSecond == NoonHour * SecondsPerHour

AtNoon(t) == t.sod = NoonSecond /\ t.micro = 0

\* C7: with the scheme daily, the timestamps computed for the successive
\* indices of one run are exactly one day apart, each at local noon with zero
\* minutes, seconds and microseconds.
C7_DailyOneDayApart ==
    cb_scheme = "daily" =>
        /\ \A k \in 1..Len(cb_log) : AtNoon(cb_log[k].when)
        /\ \A k \in 1..(Len(cb_log) - 1) :
              cb_log[k].when.day - cb_log[k + 1].when.day = 1

\* C8, as amended: called with no scheme, compute_backdated_when returns the
\* current day at local noon, the minutes, seconds and microseconds zero, as
\* it does for every scheme: the result is normalized to noon on every path.
C8_EveryPathNoon ==
    \A k \in 1..Len(cb_log) :
        /\ AtNoon(cb_log[k].when)
        /\ cb_scheme = "none" => cb_log[k].when.day = cb_log[k].base.day

\* C8's case: a call with no scheme at a clock reading that is not noon.
C8_Witness ==
    /\ cb_scheme = "none"
    /\ Len(cb_log) >= 1
    /\ ~AtNoon(cb_log[1].base)

\* C8, as stated: called with no scheme, compute_backdated_when returns the
\* unmodified current time, not normalized to noon.
C8_NoSchemeUnmodified ==
    cb_scheme = "none" => \A k \in 1..Len(cb_log) : cb_log[k].when = cb_log[k].base

IsStrictPrefix(a, b) == Len(a) < Len(b) /\ SubSeq(b, 1, Len(a)) = a

\* The heading line of the activity file of a day, written out.
HeadingLine(day) ==
    IF day = 272
    THEN <<"#", " ", "3", "0", ".", "0", "9", ".", "2", "5">>
    ELSE <<"#", " ", "0", "1", ".", "1", "0", ".", "2", "5">>

\* The path of the activity file of a day, written out.
FilePath(day) ==
    IF day = 272
    THEN <<<<"2", "0", "2", "5">>, <<"0", "9">>, <<"3", "0">>>>
    ELSE <<<<"2", "0", "2", "5">>, <<"1", "0">>, <<"0", "1">>>>

\* The text every block appended to an existing file starts with.
Separator == <<NL, "<", "h", "r", ">", NL, NL, "_", "U", "P", "D", " ", "(">>

\* C4: of the calls that resolve to one <YYYY>/<MM>/<DD>.md path, the first
\* writes a file whose first line is "# " and the date as DD.MM.YY, and every
\* later one keeps the file's content as a strict prefix of the new content,
\* appending the separator, the UPD label and the text: the size strictly
\* grows, and no file of another path changes.
C4_AppendOnly ==
    wt_calls >= 1 =>
        LET p == wt_path
            before == IF p \in Files(wt_prev) THEN wt_prev[p] ELSE <<>>
            head == HeadingLine(now.day)
        IN  /\ p = FilePath(now.day)
            /\ p \in Files(wt)
            /\ IsStrictPrefix(before, wt[p])
            /\ Size(wt[p]) > Size(before)
            /\ SubSeq(wt[p], 1, Len(head) + 1) = head \o <<NL>>
            /\ before # <<>> =>
                  SubSeq(wt[p], Len(before) + 1, Len(before) + Len(Separator)) = Separator
            /\ \A q \in Files(wt_prev) \ {p} : q \in Files(wt) /\ wt[q] = wt_prev[q]

\* C4's case: the third call on a path that was absent before the first.
C4_Witness ==
    /\ wt_calls = 3
    /\ Files(wt) = {wt_path}
    /\ wt_path \in Files(wt_prev)
    /\ Len(wt_prev[wt_path]) > Len(HeadingLine(now.day)) + Len(Separator)

\* The steps of commit_and_push, in the order the claim gives them.
StepOrders ==
    { <<"remote", "checkout", "identity", "add">> \o c \o <<"push">> \o s :
        c \in {<<>>, <<"commit">>}, s \in {<<>>, <<"secondary">>} }

\* Neither the settings nor the git configuration give a name and an email.
IdentityMissing ==
    \/ settings.author_name = "" /\ ConfigValue(gitconfig, "name") = ""
    \/ settings.author_email = "" /\ ConfigValue(gitconfig, "email") = ""

\* C1: at the commit step of commit_and_push, all changes staged: when the
\* working tree differs from HEAD exactly one commit is added to the branch,
\* its author and its committer both the identity the resolver returned; when
\* it does not differ, no commit is created and the branch is unchanged.
C1_CommitIffChanged ==
    [][pc = "cp_commit" =>
          IF wt # TreeOf(heads[HEAD])
          THEN /\ Len(heads'[HEAD]) = Len(heads[HEAD]) + 1
               /\ SubSeq(heads'[HEAD], 1, Len(heads[HEAD])) = heads[HEAD]
               /\ heads'[HEAD][Len(heads'[HEAD])].author = author_actor
               /\ heads'[HEAD][Len(heads'[HEAD])].committer = author_actor
               /\ heads'[HEAD][Len(heads'[HEAD])].tree = wt
               /\ author_actor = ensure_repo_identity(settings, gitconfig)
               /\ IdentityComplete(author_actor)
          ELSE heads' = heads]_vars

\* C1's case: a call that found the tree changed and committed it, on a
\* branch that had commits.
C1_Witness ==
    /\ pc = "cp_push"
    /\ Len(made) = 1
    /\ Len(heads[Branch]) >= 2
    /\ heads[Branch][Len(heads[Branch])] = made[1]
    /\ made[1].author = author_actor

\* C2: a failed push to origin is re-raised (the process ends with the fault,
\* the secondary remote untouched, and takes no further step); whatever the
\* push to the secondary remote does, commit_and_push returns without a fault
\* and the subcommand goes on to its next iteration.
C2_PushFailures ==
    [][/\ pc = "cp_push" /\ origin'[Branch] # heads[Branch] =>
             pc' = "failed" /\ fault' = "push" /\ secondary' = secondary
       /\ pc # "failed"
       /\ pc = "cp_secondary" => pc' = "returned" /\ fault' = ""
       /\ pc = "returned" => pc' = "loop" /\ loop_i' = loop_i + 1]_vars

\* C2's case: the second iteration under way after a failed secondary push in
\* the first (the secondary remote lacks the first iteration's commit).
C2_Witness ==
    /\ loop_i = 1
    /\ pc = "cp_remote"
    /\ SecondaryArg # ""
    /\ Len(made) = 1
    /\ origin[Branch] = heads[Branch]
    /\ secondary # heads[Branch]

\* C3: the steps of a call of commit_and_push run in the order remote URL
\* correction, checkout, identity resolution, staging, commit (if any),
\* primary push, secondary push (if any); and once the identity resolution
\* has run without a complete identity to find, the process has ended with
\* nothing staged, nothing committed and nothing pushed.
C3_StepOrder ==
    /\ \E o \in StepOrders : IsPrefix(effects, o)
    /\ pc \in {"cp_add", "cp_commit", "cp_push", "cp_secondary", "returned"} =>
          ~IdentityMissing
    /\ (IdentityMissing /\ Len(effects) >= 3) =>
          /\ pc = "failed" /\ fault = "identity"
          /\ effects = <<"remote", "checkout", "identity">>
          /\ git_index = TreeOf(heads[HEAD])
          /\ made = <<>>
          /\ pushed = <<>>

\* C3's case: the identity resolver failed after the activity file was written.
C3_Witness ==
    /\ fault = "identity"
    /\ wt_calls = 1
    /\ wt # git_index

\* C5: once ensure_repo and sync_with_origin have run, whatever the local
\* path held when the process started, it holds a working copy, and when the
\* branch exists on origin the local branch is at its tip.
C5_SyncedToRemoteTip ==
    (pc = "loop" /\ loop_i = 0) =>
        /\ path = "repo"
        /\ origin[Branch] # NoHistory => heads[Branch] = origin[Branch]

\* C9: of two calls of sync_with_origin in a row on one repository, the remote
\* unchanged in between, the second leaves the local branch at the commit the
\* first left it at.
C9_SyncIdempotent ==
    \A k \in 2..Len(synced) :
        synced[k].quiet => synced[k].tip = synced[k - 1].tip

\* C9's cases: a second call in a row, the branch on origin; and one with the
\* branch on the local side only.
C9_Witness ==
    /\ Len(synced) = 2
    /\ synced[2].quiet
    /\ origin[Branch] # NoHistory
    /\ synced[2].tip = origin[Branch]
    /\ Len(synced[2].tip) >= 2

\* The day of a date of the command line, written out.
DayOfDate(d) == IF d = DateA THEN 273 ELSE 274

\* The path of the activity file of a date of the command line, written out.
PathOfDate(d) ==
    IF d = DateA
    THEN <<<<"2", "0", "2", "5">>, <<"1", "0">>, <<"0", "1">>>>
    ELSE <<<<"2", "0", "2", "5">>, <<"1", "0">>, <<"0", "2">>>>

\* The tree of the commit before the k-th of the last n commits of a history.
ParentTree(hist, n, k) ==
    LET j == Len(hist) - n + k - 1
    IN  IF j = 0 THEN EmptyTree ELSE hist[j].tree

\* C6: fill-missing with the dates d1,...,dn ends, no fault met, with exactly
\* n commits made in that order, the k-th dated (author and commit date) noon
\* of dk and changing the file <YYYY>/<MM>/<DD>.md of dk and no other, a file
\* that was there (a repeated date) growing by the new block; and every commit
\* is on origin before the activity file of the next date is written.
C6_FillMissingInOrder ==
    args.cmd = "fill-missing" =>
        /\ Len(pushed) >= wt_calls - 1
        /\ \A k \in 1..Len(pushed) : pushed[k] = SubSeq(made, 1, k)
        /\ Len(origin[Branch]) >= Len(pushed)
        /\ \A k \in 1..Len(pushed) :
              origin[Branch][Len(origin[Branch]) - Len(pushed) + k] = made[k]
        /\ pc = "done" =>
              LET n == Len(DateList)
                  hist == heads[Branch]
              IN  /\ Len(made) = n
                  /\ Len(pushed) = n
                  /\ wt_calls = n
                  /\ Len(hist) >= n
                  /\ \A k \in 1..n :
                        LET c == made[k]
                            p == PathOfDate(DateList[k])
                            parent == ParentTree(hist, n, k)
                            noon == [day |-> DayOfDate(DateList[k]),
                                     sod |-> 43200, micro |-> 0]
                        IN  /\ hist[Len(hist) - n + k] = c
                            /\ c.adate = noon
                            /\ c.cdate = noon
                            /\ p \in Files(c.tree)
                            /\ IF p \in Files(parent)
                               THEN IsStrictPrefix(parent[p], c.tree[p])
                               ELSE c.tree[p] # <<>>
                            /\ \A q \in Files(parent) \ {p} :
                                  q \in Files(c.tree) /\ c.tree[q] = parent[q]
                            /\ Files(c.tree) \subseteq Files(parent) \cup {p}

\* C6's case: a run over one date given twice, ended with its two commits.
C6_Witness ==
    /\ args.cmd = "fill-missing"
    /\ pc = "done"
    /\ Len(DateList) = 2
    /\ DateList[1] = DateList[2]
    /\ Len(made) = 2
    /\ made[1].adate = made[2].adate
    /\ made[1].tree # made[2].tree

\* The commits of the iterations that ended are on the local branch and on origin.
EarlierCommitsRemain ==
    \A k \in 1..Len(pushed) :
        \A j \in 1..Len(pushed[k]) :
            /\ \E x \in 1..Len(heads[Branch]) : heads[Branch][x] = pushed[k][j]
            /\ \E x \in 1..Len(origin[Branch]) : origin[Branch][x] = pushed[k][j]

\* C10: in gpt-push and fill-missing the first fault of an iteration (the text
\* generation, the identity, the push to origin) ends the process: the step
\* goes on only when it succeeded, a process that failed takes no step, and
\* the commits of the iterations before remain on the branch and on origin.
C10_FirstFaultTerminates ==
    /\ [](args.cmd # "push" =>
            /\ EarlierCommitsRemain
            /\ pc = "failed" /\ fault \in {"ai", "identity", "push"} =>
                  Len(pushed) = loop_i)
    /\ [][args.cmd # "push" =>
            /\ pc # "failed"
            /\ pc = "ai" => \/ pc' = "write" /\ text_commit' = AiText
                            \/ pc' = "failed" /\ fault' = "ai"
            /\ pc = "cp_identity" =>
                  \/ pc' = "cp_add" /\ ~IdentityMissing'
                  \/ pc' = "failed" /\ fault' = "identity"
            /\ pc = "cp_push" =>
                  \/ pc' = "cp_secondary" /\ origin'[Branch] = heads[Branch]
                  \/ pc' = "failed" /\ fault' = "push"
            /\ loop_i' # loop_i => pc = "returned" \/ pc = "sync"]_vars

\* C10's case: the second iteration failed at its push, its commit made; the
\* commit of the first is on origin.
C10_Witness ==
    /\ args.cmd # "push"
    /\ pc = "failed"
    /\ fault = "push"
    /\ loop_i = 1
    /\ Len(made) = 2
    /\ Len(pushed) = 1
    /\ origin[Branch][Len(origin[Branch])] = made[1]
====
